---------------------------- MODULE Spec2Model ----------------------------
(***************************************************************************)
(* A model of src/server.py: the JSON-RPC dispatcher handle_mcp_request    *)
(* and the tool executor handle_call_tool of the GitHub MCP server.        *)
(*                                                                         *)
(* JSON values, Python faults and response texts are modelled as data:     *)
(*   - a JSON value is a record [t, s, n] (tag, string, number); a key     *)
(*     missing from an object is the value Absent;                         *)
(*   - a text is a sequence of segments, each a literal piece of an        *)
(*     f-string (lit) or a run of code points taken from the input (cps);  *)
(*   - a fault is a record [exc, msg].                                     *)
(* Request bodies are limited to RFC 8259 JSON that the JSON response      *)
(* renderer can serialise again (no NaN/Infinity, no lone surrogates).     *)
(***************************************************************************)
EXTENDS Integers, Sequences, FiniteSets, TLC

VARIABLES
    pc,       \* per handler: "idle", "parsing", "awaiting", "done"
    req,      \* per handler: the HTTP request body being handled
    call,     \* per handler: the upstream call issued by client.get, or NoCall
    outcome,  \* per handler: the outcome of its upstream call, or NoOutcome
    resp,     \* per handler: what handle_mcp_request returned (or raised)
    GITHUB_TOKEN  \* os.getenv("GITHUB_TOKEN"), "" when unset; read-only

vars == <<pc, req, call, outcome, resp, GITHUB_TOKEN>>

(***************************************************************************)
(* Bounds of the model.                                                    *)
(***************************************************************************)
NumHandlers == 2    \* requests handled concurrently (SpecConc)
MaxEntries == 2     \* longest upstream directory listing

Handlers == 1..NumHandlers

(***************************************************************************)
(* JSON values as Python sees them after json.loads.                       *)
(***************************************************************************)
Absent == [t |-> "absent", s |-> "", n |-> 0]
JNull == [t |-> "null", s |-> "", n |-> 0]
JStr(x) == [t |-> "str", s |-> x, n |-> 0]
JNum(k) == [t |-> "num", s |-> "", n |-> k]
JFalse == [t |-> "bool", s |-> "", n |-> 0]

\* d.get(key, default): the value under the key, or the default when missing.
DictGet(v, default) == IF v.t = "absent" THEN default ELSE v

\* d.get(key): a missing key reads as None.
DictGetNone(v) == DictGet(v, JNull)

\* Python truthiness, as used by `not path` and `path or 'root'`.
Truthy(v) ==
    CASE v.t = "str" -> v.s # ""
      [] v.t = "num" -> v.n # 0
      [] v.t = "bool" -> v.n # 0
      [] OTHER -> FALSE        \* None, [] and {}

\* v == "<literal>" in Python: only a str equals a str.
PyEqStr(v, lit) == v.t = "str" /\ v.s = lit

\* v == 0 in Python: an int (or bool) of value 0.
PyEqZero(v) == v.t \in {"num", "bool"} /\ v.n = 0

\* type(v).__name__
PyTypeName(v) ==
    CASE v.t = "str" -> "str"
      [] v.t = "num" -> "int"
      [] v.t = "bool" -> "bool"
      [] v.t = "list" -> "list"
      [] v.t = "dict" -> "dict"
      [] OTHER -> "NoneType"

\* str(v), which is what an f-string field {v} inserts.
PyStr(v) ==
    CASE v.t = "str" -> v.s
      [] v.t = "num" -> ToString(v.n)
      [] v.t = "bool" -> IF v.n = 0 THEN "False" ELSE "True"
      [] v.t = "list" -> "[]"
      [] v.t = "dict" -> "{}"
      [] OTHER -> "None"

(***************************************************************************)
(* Texts and faults.                                                       *)
(***************************************************************************)
Lit(s) == <<[lit |-> s, cps |-> <<>>]>>
Data(c) == <<[lit |-> "", cps |-> c]>>

\* s[:n] of a run of code points.
Take(c, n) == SubSeq(c, 1, IF Len(c) < n THEN Len(c) ELSE n)

\* The number of characters a text's input-derived segments hold.
RECURSIVE DataLen(_)
DataLen(text) ==
    IF text = <<>> THEN 0 ELSE Len(Head(text).cps) + DataLen(Tail(text))

NoFault == [exc |-> "", msg |-> ""]
Fault(e, m) == [exc |-> e, msg |-> m]

\* None.get / [].get / "...".get / (5).get
NoAttrGet(tn) == Fault("AttributeError", "'" \o tn \o "' object has no attribute 'get'")

TextContent(text) == [type |-> "text", text |-> text]

ExcerptErr == 200   \* response.text[:200]
ExcerptBad == 500   \* response.text[:500]

(***************************************************************************)
(* base64.b64decode(s) (validate=False) followed by .decode("utf-8").      *)
(* Characters are code points; the results are [ok, out, msg].             *)
(***************************************************************************)
\* binascii's table_a2b_base64: the 6-bit value of a character, 64 if none.
B64Value(c) ==
    CASE c >= 65 /\ c <= 90 -> c - 65
      [] c >= 97 /\ c <= 122 -> c - 71
      [] c >= 48 /\ c <= 57 -> c + 4
      [] c = 43 -> 62
      [] c = 47 -> 63
      [] OTHER -> 64

RECURSIVE A2bBase64(_, _, _, _, _, _)
A2bBase64(s, i, quad, left, pads, out) ==
    IF i > Len(s)
    THEN IF quad = 0 THEN [ok |-> TRUE, out |-> out, msg |-> ""]
         ELSE IF quad = 1
              THEN [ok |-> FALSE, out |-> <<>>, msg |-> "Invalid base64-encoded string"]
              ELSE [ok |-> FALSE, out |-> <<>>, msg |-> "Incorrect padding"]
    ELSE LET c == s[i]
             v == B64Value(c)
         IN  IF c = 61
             THEN IF quad >= 2 /\ quad + pads + 1 >= 4
                  THEN [ok |-> TRUE, out |-> out, msg |-> ""]
                  ELSE A2bBase64(s, i + 1, quad, left,
                                 IF quad >= 2 THEN pads + 1 ELSE pads, out)
             ELSE IF v = 64
                  THEN A2bBase64(s, i + 1, quad, left, pads, out)
                  ELSE CASE quad = 0 -> A2bBase64(s, i + 1, 1, v, 0, out)
                         [] quad = 1 ->
                              A2bBase64(s, i + 1, 2, v % 16, 0,
                                        Append(out, left * 4 + v \div 16))
                         [] quad = 2 ->
                              A2bBase64(s, i + 1, 3, v % 4, 0,
                                        Append(out, left * 16 + v \div 4))
                         [] OTHER ->
                              A2bBase64(s, i + 1, 0, 0, 0,
                                        Append(out, left * 64 + v))

IsAscii(s) == \A i \in 1..Len(s) : s[i] < 128

b64decode(s) ==
    IF ~IsAscii(s)
    THEN [ok |-> FALSE, out |-> <<>>,
          msg |-> "string argument should contain only ASCII characters"]
    ELSE A2bBase64(s, 1, 0, 0, 0, <<>>)

IsCont(b, i) == i <= Len(b) /\ b[i] >= 128 /\ b[i] <= 191
InRange(b, i, lo, hi) == i <= Len(b) /\ b[i] >= lo /\ b[i] <= hi

\* bytes.decode("utf-8"), strict.
RECURSIVE Utf8Decode(_, _, _)
Utf8Decode(b, i, out) ==
    LET bad == [ok |-> FALSE, out |-> <<>>, msg |-> "'utf-8' codec can't decode"]
    IN  IF i > Len(b) THEN [ok |-> TRUE, out |-> out, msg |-> ""]
        ELSE LET x == b[i]
             IN CASE x < 128 -> Utf8Decode(b, i + 1, Append(out, x))
                  [] x >= 194 /\ x <= 223 ->
                       IF IsCont(b, i + 1)
                       THEN Utf8Decode(b, i + 2,
                                Append(out, (x - 192) * 64 + (b[i + 1] - 128)))
                       ELSE bad
                  [] x >= 224 /\ x <= 239 ->
                       IF /\ InRange(b, i + 1,
                                     IF x = 224 THEN 160 ELSE 128,
                                     IF x = 237 THEN 159 ELSE 191)
                          /\ IsCont(b, i + 2)
                       THEN Utf8Decode(b, i + 3,
                                Append(out, (x - 224) * 4096 + (b[i + 1] - 128) * 64
                                            + (b[i + 2] - 128)))
                       ELSE bad
                  [] x >= 240 /\ x <= 244 ->
                       IF /\ InRange(b, i + 1,
                                     IF x = 240 THEN 144 ELSE 128,
                                     IF x = 244 THEN 143 ELSE 191)
                          /\ IsCont(b, i + 2)
                          /\ IsCont(b, i + 3)
                       THEN Utf8Decode(b, i + 4,
                                Append(out, (x - 240) * 262144 + (b[i + 1] - 128) * 4096
                                            + (b[i + 2] - 128) * 64 + (b[i + 3] - 128)))
                       ELSE bad
                  [] OTHER -> bad

\* base64.b64decode(data["content"]).decode("utf-8")
DecodeContent(s) ==
    LET raw == b64decode(s)
    IN  IF raw.ok THEN Utf8Decode(raw.out, 1, <<>>) ELSE raw


(***************************************************************************)
(* The upstream call and its outcome.                                      *)
(***************************************************************************)
GITHUB_API_BASE == "https://api.github.com"

NoContent == [t |-> "absent", cps |-> <<>>]

\* An element of an upstream JSON array, or the upstream JSON object itself.
Entry(isDict, name, type, size, content) ==
    [isDict |-> isDict, name |-> name, type |-> type, size |-> size,
     content |-> content]

\* What response.json() yields: shape "invalid" raises json.JSONDecodeError.
Json(shape, items, s) == [shape |-> shape, items |-> items, s |-> s]
NoJson == Json("invalid", <<>>, <<>>)

NoOutcome == [kind |-> "none", status |-> 0, text |-> <<>>, json |-> NoJson,
              cause |-> ""]
HttpResponse(status, text, json) ==
    [kind |-> "response", status |-> status, text |-> text, json |-> json,
     cause |-> ""]
\* httpx.TimeoutException and any other exception raised by client.get.
TimeoutOutcome(cause) ==
    [kind |-> "timeout", status |-> 0, text |-> <<>>, json |-> NoJson,
     cause |-> cause]
TransportOutcome(cause) ==
    [kind |-> "error", status |-> 0, text |-> <<>>, json |-> NoJson,
     cause |-> cause]

NoCall == [tool |-> "", url |-> <<>>, auth |-> FALSE, username |-> Absent,
           owner |-> Absent, repo |-> Absent, path |-> Absent]

(***************************************************************************)
(* handle_call_tool, up to its await of client.get: the locals it reads    *)
(* from the arguments and the URL it requests, or the fault it raises.     *)
(***************************************************************************)
Raise(f) == [fault |-> f, frame |-> NoCall, value |-> <<>>]
Issue(c) == [fault |-> NoFault, frame |-> c, value |-> <<>>]

\* A variant that normalizes only the empty path.
NormalizePathEmptyOnly(path) == IF ~Truthy(path) THEN JStr("") ELSE path

\* not path or path == "/"  ->  path = ""
NormalizePath(path) ==
    IF ~Truthy(path) \/ PyEqStr(path, "/") THEN JStr("") ELSE path

\* path or 'root'
PathOrRoot(path) == IF Truthy(path) THEN PyStr(path) ELSE "root"

ListRepositoriesStart(arguments, token) ==
    IF arguments.t # "dict" THEN Raise(NoAttrGet(PyTypeName(arguments)))
    ELSE LET username == DictGetNone(arguments.username)
         IN  Issue([NoCall EXCEPT
                 !.tool = "list_repositories",
                 !.username = username,
                 !.auth = token # "",
                 !.url = <<GITHUB_API_BASE, "/users/", PyStr(username), "/repos">>])

GetFileContentsStart(arguments, token) ==
    IF arguments.t # "dict" THEN Raise(NoAttrGet(PyTypeName(arguments)))
    ELSE LET owner == DictGetNone(arguments.owner)
             repo == DictGetNone(arguments.repo)
             path == NormalizePath(DictGet(arguments.path, JStr("")))
         IN  Issue([NoCall EXCEPT
                 !.tool = "get_file_contents",
                 !.owner = owner, !.repo = repo, !.path = path,
                 !.auth = token # "",
                 !.url = <<GITHUB_API_BASE, "/repos/", PyStr(owner), "/",
                           PyStr(repo), "/contents/", PyStr(path)>>])

GetRepositoryInfoStart(arguments, token) ==
    IF arguments.t # "dict" THEN Raise(NoAttrGet(PyTypeName(arguments)))
    ELSE LET owner == DictGetNone(arguments.owner)
             repo == DictGetNone(arguments.repo)
         IN  Issue([NoCall EXCEPT
                 !.tool = "get_repository_info",
                 !.owner = owner, !.repo = repo,
                 !.auth = token # "",
                 !.url = <<GITHUB_API_BASE, "/repos/", PyStr(owner), "/",
                           PyStr(repo)>>])

RegisteredTools == {"list_repositories", "get_file_contents", "get_repository_info"}

\* A variant whose last branch is a tool instead of the ValueError.
handle_call_tool_start_no_else(name, arguments, token) ==
    CASE PyEqStr(name, "list_repositories") -> ListRepositoriesStart(arguments, token)
      [] PyEqStr(name, "get_file_contents") -> GetFileContentsStart(arguments, token)
      [] OTHER -> GetRepositoryInfoStart(arguments, token)

handle_call_tool_start(name, arguments, token) ==
    CASE PyEqStr(name, "list_repositories") -> ListRepositoriesStart(arguments, token)
      [] PyEqStr(name, "get_file_contents") -> GetFileContentsStart(arguments, token)
      [] PyEqStr(name, "get_repository_info") -> GetRepositoryInfoStart(arguments, token)
      [] OTHER -> Raise(Fault("ValueError", "Unknown tool: " \o PyStr(name)))


(***************************************************************************)
(* handle_call_tool after the await: from the locals and the upstream      *)
(* outcome to the list of TextContent it returns.                          *)
(***************************************************************************)
One(text) == <<TextContent(text)>>

\* The body of a try block: the value it returns or the fault it raises.
Ok(v) == [fault |-> NoFault, value |-> v]
Fail(f) == [fault |-> f, value |-> <<>>]

\* f"- {item['name']} ({item['type']})" for each item, joined by "\n".
RECURSIVE FileList(_, _)
FileList(items, acc) ==
    IF items = <<>> THEN Ok(acc)
    ELSE LET item == Head(items)
         IN  IF ~item.isDict
             THEN Fail(Fault("TypeError", "'int' object is not subscriptable"))
             ELSE IF item.name.t = "absent" THEN Fail(Fault("KeyError", "'name'"))
             ELSE IF item.type.t = "absent" THEN Fail(Fault("KeyError", "'type'"))
             ELSE FileList(Tail(items),
                      acc \o (IF acc = <<>> THEN <<>> ELSE Lit("\n"))
                          \o Lit("- ") \o Lit(PyStr(item.name))
                          \o Lit(" (") \o Lit(PyStr(item.type)) \o Lit(")"))

\* json.dumps(v) of a JSON value.
JsonRepr(v) ==
    CASE v.t = "str" -> "\"" \o v.s \o "\""
      [] v.t = "num" -> ToString(v.n)
      [] v.t = "bool" -> IF v.n = 0 THEN "false" ELSE "true"
      [] v.t = "list" -> "[]"
      [] v.t = "dict" -> "{}"
      [] OTHER -> "null"

\* json.dumps(data, indent=2) of an upstream object that has no "content".
JsonDumpsEntry(e) ==
    LET field(k, v) == IF v.t = "absent" THEN <<>> ELSE <<Lit("\"" \o k \o "\": " \o JsonRepr(v))>>
        fields == field("name", e.name) \o field("type", e.type) \o field("size", e.size)
        join[i \in 0..Len(fields)] ==
            IF i = 0 THEN <<>>
            ELSE join[i - 1] \o Lit(IF i = 1 THEN "\n  " ELSE ",\n  ") \o fields[i]
    IN  IF fields = <<>> THEN Lit("{}")
        ELSE Lit("{") \o join[Len(fields)] \o Lit("\n}")

\* "content" in data, for data a str: a substring test.
IsSubstring(sub, s) ==
    \E i \in 0..(Len(s) - Len(sub)) : SubSeq(s, i + 1, i + Len(sub)) = sub

ContentWord == <<99, 111, 110, 116, 101, 110, 116>>    \* "content"

\* A variant that reads the size without a default: data.get("size") == 0.
FileWithContentNoDefault(e, path) ==
    IF PyEqZero(DictGetNone(e.size))
    THEN One(Lit("File exists but is empty: ") \o Lit(PyStr(path)))
    ELSE IF e.content.t # "str"
         THEN One(Lit("Error decoding file content: ")
                  \o Lit("argument should be a bytes-like object or ASCII string, not 'NoneType'"))
         ELSE LET d == DecodeContent(e.content.cps)
              IN  IF d.ok THEN One(Data(d.out))
                  ELSE One(Lit("Error decoding file content: ") \o Lit(d.msg))

\* The file branch: data is an object with a "content" key.
FileWithContent(e, path) ==
    IF PyEqZero(DictGet(e.size, JNum(0)))
    THEN One(Lit("File exists but is empty: ") \o Lit(PyStr(path)))
    ELSE IF e.content.t # "str"
         THEN One(Lit("Error decoding file content: ")
                  \o Lit("argument should be a bytes-like object or ASCII string, not 'NoneType'"))
         ELSE LET d == DecodeContent(e.content.cps)
              IN  IF d.ok THEN One(Data(d.out))
                  ELSE One(Lit("Error decoding file content: ") \o Lit(d.msg))

\* A variant that cuts the body like the invalid-JSON branch does.
HttpErrorTextLong(response) ==
    Lit("Error accessing file: HTTP ") \o Lit(ToString(response.status))
    \o Lit(". ") \o Data(Take(response.text, ExcerptBad))

\* Lines 133-137: any status other than 200 (404 is answered before).
HttpErrorText(response) ==
    Lit("Error accessing file: HTTP ") \o Lit(ToString(response.status))
    \o Lit(". ") \o Data(Take(response.text, ExcerptErr))

\* Lines 125-182: the try block of get_file_contents once client.get returned.
GetFileContentsTry(frame, response) ==
    LET data == response.json
    IN  IF response.status = 404
        THEN Ok(One(Lit("File not found: ") \o Lit(PathOrRoot(frame.path)) \o Lit(" in ")
                    \o Lit(PyStr(frame.owner)) \o Lit("/") \o Lit(PyStr(frame.repo))
                    \o Lit(". The file may not exist or the repository may be private.")))
        ELSE IF response.status # 200
        THEN Ok(One(HttpErrorText(response)))
        ELSE IF data.shape = "invalid"
        THEN Ok(One(Lit("Error: GitHub API returned invalid JSON. Response: ")
                    \o Data(Take(response.text, ExcerptBad))))
        ELSE IF data.shape = "list"
        THEN LET file_list == FileList(data.items, <<>>)
             IN  IF file_list.fault # NoFault THEN Fail(file_list.fault)
                 ELSE Ok(One(Lit("Directory contents of ") \o Lit(PathOrRoot(frame.path))
                             \o Lit(":\n") \o file_list.value))
        ELSE IF data.shape = "dict"
        THEN LET e == data.items[1]
             IN  IF e.content.t # "absent"
                 THEN Ok(FileWithContent(e, frame.path))
                 ELSE Ok(One(JsonDumpsEntry(e)))
        ELSE IF data.shape = "str"
        THEN IF IsSubstring(ContentWord, data.s)
             THEN Fail(NoAttrGet("str"))
             ELSE Ok(One(Lit("\"") \o Data(data.s) \o Lit("\"")))
        ELSE IF data.shape = "num"
        THEN Fail(Fault("TypeError", "argument of type 'int' is not iterable"))
        ELSE Fail(Fault("TypeError", "argument of type 'NoneType' is not iterable"))

GetFileContentsFinish(frame, o) ==
    IF o.kind = "timeout"
    THEN One(Lit("Timeout accessing GitHub API for ") \o Lit(PyStr(frame.owner))
             \o Lit("/") \o Lit(PyStr(frame.repo)) \o Lit("/") \o Lit(PyStr(frame.path)))
    ELSE IF o.kind = "error"
    THEN One(Lit("Error: ") \o Lit(o.cause))
    ELSE LET r == GetFileContentsTry(frame, o)
         IN  IF r.fault # NoFault THEN One(Lit("Error: ") \o Lit(r.fault.msg))
             ELSE r.value

ListRepositoriesFinish(frame, o) ==
    IF o.kind # "response" THEN One(Lit("Error: ") \o Lit(o.cause))
    ELSE IF o.status # 200
    THEN One(Lit("Error: HTTP ") \o Lit(ToString(o.status)) \o Lit(" - ") \o Data(o.text))
    ELSE One(Data(o.text))

GetRepositoryInfoFinish(frame, o) ==
    IF o.kind # "response" THEN One(Lit("Error: ") \o Lit(o.cause))
    ELSE IF o.status # 200
    THEN One(Lit("Error: HTTP ") \o Lit(ToString(o.status)) \o Lit(" - ")
             \o Data(Take(o.text, ExcerptErr)))
    ELSE One(Data(o.text))

handle_call_tool_finish(frame, o) ==
    CASE frame.tool = "list_repositories" -> ListRepositoriesFinish(frame, o)
      [] frame.tool = "get_file_contents" -> GetFileContentsFinish(frame, o)
      [] OTHER -> GetRepositoryInfoFinish(frame, o)


(***************************************************************************)
(* handle_list_tools: the static tool catalog.                             *)
(***************************************************************************)
Tool(name, description, required) ==
    [name |-> name, description |-> description, required |-> required]

handle_list_tools ==
    << Tool("list_repositories",
            "List all public repositories for a GitHub user",
            <<"username">>),
       Tool("get_file_contents",
            "Get contents of a file from a GitHub repository. Can also list directory contents if path is a directory.",
            <<"owner", "repo", "path">>),
       Tool("get_repository_info",
            "Get detailed information about a GitHub repository including description, stars, topics, and language",
            <<"owner", "repo">>) >>

(***************************************************************************)
(* Request bodies and JSON-RPC responses.                                  *)
(***************************************************************************)
Args(t, username, owner, repo, path) ==
    [t |-> t, username |-> username, owner |-> owner, repo |-> repo, path |-> path]
NoArgs == Args("absent", Absent, Absent, Absent, Absent)

Params(t, name, arguments) == [t |-> t, name |-> name, arguments |-> arguments]
NoParams == Params("absent", Absent, NoArgs)

\* t: "invalid" (not JSON), "dict" (a JSON object) or the type of another JSON value.
Body(t, method, id, params) == [t |-> t, method |-> method, id |-> id, params |-> params]
NoBody == Body("none", Absent, Absent, NoParams)

NoResult == [kind |-> "none", tools |-> <<>>, content |-> <<>>]
NoError == [code |-> 0, message |-> <<>>]

\* JSONResponse(content, status_code): keys is the set of keys of content.
JSONResponse(keys, id, result, error) ==
    [kind |-> "response", status |-> 200, keys |-> keys, id |-> id,
     result |-> result, error |-> error, fault |-> NoFault]

NoResp == [kind |-> "none", status |-> 0, keys |-> {}, id |-> Absent,
           result |-> NoResult, error |-> NoError, fault |-> NoFault]

\* The handler raised: no response of its own.
Raised(f) == [NoResp EXCEPT !.kind = "raised", !.fault = f]

ResultResponse(id, result) ==
    JSONResponse({"jsonrpc", "id", "result"}, id, result, NoError)

\* A variant that fills in a result beside the error.
ErrorResponseWithResult(id, code, message) ==
    JSONResponse({"jsonrpc", "id", "result", "error"}, id,
                 [NoResult EXCEPT !.kind = "empty"],
                 [code |-> code, message |-> message])

ErrorResponse(id, code, message) ==
    JSONResponse({"jsonrpc", "id", "error"}, id, NoResult,
                 [code |-> code, message |-> message])

\* Lines 314-323: the except branch, entered with fault f.
ExceptBranch(body, f) ==
    IF body.t = "invalid"        \* 'body' not in locals()
    THEN ErrorResponse(JNull, -32603, Lit("Internal error: ") \o Lit(f.msg))
    ELSE IF body.t # "dict"      \* body.get("id") raises inside the handler
    THEN Raised(NoAttrGet(PyTypeName(body)))
    ELSE ErrorResponse(DictGetNone(body.id), -32603,
                       Lit("Internal error: ") \o Lit(f.msg))

\* A variant that reports an unknown method as an internal error.
MethodNotFoundAsInternal(msg_id, method) ==
    ErrorResponse(msg_id, -32603, Lit("Internal error: ") \o Lit(PyStr(method)))

\* Lines 303-312: the unknown-method branch.
MethodNotFound(msg_id, method) ==
    ErrorResponse(msg_id, -32601, Lit("Method not found: ") \o Lit(PyStr(method)))

\* body.get("params", {}) and params.get("arguments", {})
OrEmptyDict(v) == IF v.t = "absent" THEN [v EXCEPT !.t = "dict"] ELSE v

ContentResult(result) ==
    [kind |-> "content", tools |-> <<>>,
     content |-> [i \in 1..Len(result) |->
                    [type |-> result[i].type, text |-> result[i].text]]]

ToolsResult(tools) ==
    [kind |-> "tools", content |-> <<>>,
     tools |-> [i \in 1..Len(tools) |->
                  [name |-> tools[i].name, description |-> tools[i].description,
                   required |-> tools[i].required]]]

Done(r) == [awaits |-> FALSE, frame |-> NoCall, response |-> r]
Await(c) == [awaits |-> TRUE, frame |-> c, response |-> NoResp]

\* Lines 277-281: the tools/call branch up to the await inside handle_call_tool.
ToolsCallStart(body, msg_id, token) ==
    LET params == OrEmptyDict(body.params)
    IN  IF params.t # "dict"
        THEN Done(ExceptBranch(body, NoAttrGet(PyTypeName(params))))
        ELSE LET tool_name == DictGetNone(params.name)
                 arguments == OrEmptyDict(params.arguments)
                 started == handle_call_tool_start(tool_name, arguments, token)
             IN  IF started.fault # NoFault
                 THEN Done(ExceptBranch(body, started.fault))
                 ELSE Await(started.frame)

\* handle_mcp_request from the arrival of the body to its first await or return.
handle_mcp_request_start(body, token) ==
    IF body.t = "invalid"
    THEN Done(ExceptBranch(body, Fault("JSONDecodeError", "Expecting value")))
    ELSE IF body.t # "dict"
    THEN Done(ExceptBranch(body, NoAttrGet(PyTypeName(body))))
    ELSE LET method == DictGetNone(body.method)
             msg_id == DictGetNone(body.id)
         IN  CASE PyEqStr(method, "initialize") ->
                    Done(ResultResponse(msg_id, [NoResult EXCEPT !.kind = "initialize"]))
               [] PyEqStr(method, "notifications/initialized") ->
                    Done(JSONResponse({"jsonrpc"}, Absent, NoResult, NoError))
               [] PyEqStr(method, "tools/list") ->
                    Done(ResultResponse(msg_id, ToolsResult(handle_list_tools)))
               [] PyEqStr(method, "tools/call") ->
                    ToolsCallStart(body, msg_id, token)
               [] PyEqStr(method, "ping") ->
                    Done(ResultResponse(msg_id, [NoResult EXCEPT !.kind = "empty"]))
               [] OTHER ->
                    Done(MethodNotFound(msg_id, method))

\* A variant that answers a tool call without the request's id.
handle_mcp_request_finish_no_id(body, frame, o) ==
    ResultResponse(JNull, ContentResult(handle_call_tool_finish(frame, o)))

\* Lines 281-292: handle_call_tool resumes with the upstream outcome o.
handle_mcp_request_finish(body, frame, o) ==
    ResultResponse(DictGetNone(body.id), ContentResult(handle_call_tool_finish(frame, o)))


(***************************************************************************)
(* The inputs: request bodies and upstream outcomes.                       *)
(***************************************************************************)
\* A text of n characters.
Fill(n) == [i \in 1..n |-> 120]

Ids == {Absent, JNull, JNum(7), JStr("req-1")}

KnownMethods == {"initialize", "notifications/initialized", "tools/list",
                 "tools/call", "ping"}

OtherMethods == {Absent, JNull, JNum(5), JStr(""), JStr("Ping"), JStr("resources/list")}

Paths == {Absent, JNull, JNum(0), JStr(""), JStr("/"), JStr("README.md"), JStr("src/lib")}

RootPaths == {Absent, JNull, JNum(0), JStr(""), JStr("/")}

BadArgs == {Args(t, Absent, Absent, Absent, Absent) : t \in {"null", "list", "str"}}

ArgsFor(name) ==
    CASE PyEqStr(name, "list_repositories") ->
            {NoArgs} \cup BadArgs
            \cup {Args("dict", u, Absent, Absent, Absent) : u \in {Absent, JStr("octocat")}}
      [] PyEqStr(name, "get_file_contents") ->
            {NoArgs} \cup BadArgs
            \cup {Args("dict", Absent, o, JStr("widgets"), p) :
                    o \in {Absent, JStr("acme")}, p \in Paths}
      [] PyEqStr(name, "get_repository_info") ->
            {NoArgs} \cup BadArgs
            \cup {Args("dict", Absent, o, JStr("widgets"), Absent) :
                    o \in {Absent, JStr("acme")}}
      [] OTHER -> {NoArgs, Args("null", Absent, Absent, Absent, Absent),
                   Args("dict", Absent, JStr("acme"), JStr("widgets"), JStr("README.md"))}

ToolNames == {Absent, JNull, JNum(3), JStr("delete_repository"), JStr("List_Repositories")}
             \cup {JStr(n) : n \in RegisteredTools}

CallParams ==
    {NoParams} \cup {Params(t, Absent, NoArgs) : t \in {"null", "list", "str"}}
    \cup {Params("dict", n, a) : n \in ToolNames, a \in UNION {ArgsFor(m) : m \in ToolNames}}

Requests ==
    {Body(t, Absent, Absent, NoParams) : t \in {"invalid", "list", "str", "num", "null"}}
    \cup {Body("dict", m, id, p) :
            m \in OtherMethods \cup {JStr(k) : k \in KnownMethods \ {"tools/call"}},
            id \in Ids, p \in {NoParams, Params("null", Absent, NoArgs)}}
    \cup {Body("dict", JStr("tools/call"), id, p) : id \in Ids, p \in CallParams}

\* base64 texts with what CPython's b64decode(..).decode("utf-8") makes of them.
ContentVectors ==
    {
      [b64 |-> <<97, 71, 86, 115, 98, 71, 56, 61>>, ok |-> TRUE, plain |-> <<104, 101, 108, 108, 111>>],
      [b64 |-> <<97, 71, 86, 115, 10, 98, 71, 56, 61, 10>>, ok |-> TRUE, plain |-> <<104, 101, 108, 108, 111>>],
      [b64 |-> <<>>, ok |-> TRUE, plain |-> <<>>],
      [b64 |-> <<119, 54, 107, 61>>, ok |-> TRUE, plain |-> <<233>>],
      [b64 |-> <<56, 74, 43, 89, 103, 65, 61, 61>>, ok |-> TRUE, plain |-> <<128512>>],
      [b64 |-> <<97, 71, 107>>, ok |-> FALSE, plain |-> <<>>],
      [b64 |-> <<97>>, ok |-> FALSE, plain |-> <<>>],
      [b64 |-> <<47, 119, 61, 61>>, ok |-> FALSE, plain |-> <<>>],
      [b64 |-> <<55, 97, 67, 65>>, ok |-> FALSE, plain |-> <<>>],
      [b64 |-> <<104, 233>>, ok |-> FALSE, plain |-> <<>>]
    }

Texts == {Fill(0), Fill(3), Fill(ExcerptErr), Fill(ExcerptErr + 1), Fill(ExcerptBad + 1)}

ErrorStatuses == {206, 403, 404, 500}

Sizes == {Absent, JNull, JFalse, JNum(0), JNum(5)}

ListItems ==
    { Entry(TRUE, JStr("a.txt"), JStr("file"), JNum(5), NoContent),
      Entry(TRUE, JStr("src"), JStr("dir"), JNum(0), NoContent),
      Entry(TRUE, Absent, JStr("file"), JNum(5), NoContent),
      Entry(TRUE, JStr("b.txt"), Absent, JNum(5), NoContent),
      Entry(FALSE, Absent, Absent, Absent, NoContent) }

RECURSIVE SeqsUpTo(_, _)
SeqsUpTo(S, n) ==
    IF n = 0 THEN {<<>>}
    ELSE LET shorter == SeqsUpTo(S, n - 1)
         IN  shorter \cup {Append(q, x) : q \in shorter, x \in S}

Contents ==
    {NoContent, [t |-> "null", cps |-> <<>>]}
    \cup {[t |-> "str", cps |-> v.b64] : v \in ContentVectors}

FileJsons ==
    {Json("list", items, <<>>) : items \in SeqsUpTo(ListItems, MaxEntries)}
    \cup {Json("dict", <<Entry(TRUE, JStr("README.md"), ty, sz, c)>>, <<>>) :
            ty \in {Absent, JStr("file")}, sz \in Sizes, c \in Contents}
    \cup {Json("str", <<>>, s) : s \in {<<104, 105>>, <<120>> \o ContentWord}}
    \cup {Json("num", <<>>, <<>>), Json("null", <<>>, <<>>)}

Failures ==
    {TimeoutOutcome(""), TransportOutcome("All connection attempts failed")}
    \cup {HttpResponse(st, t, NoJson) : st \in ErrorStatuses, t \in Texts}

Outcomes(tool) ==
    IF tool = "get_file_contents"
    THEN Failures
         \cup {HttpResponse(200, t, NoJson) : t \in Texts}
         \cup {HttpResponse(st, Fill(3), j) : st \in {200, 206}, j \in FileJsons}
    ELSE Failures \cup {HttpResponse(200, t, NoJson) : t \in Texts}

\* The inputs of the concurrent specification.
ConcRequests ==
    {Body("dict", JStr("ping"), JNum(7), NoParams)}
    \cup {Body("dict", JStr("tools/call"), JNum(7),
               Params("dict", JStr("get_file_contents"),
                      Args("dict", Absent, JStr("acme"), JStr("widgets"), p))) :
            p \in {JStr(""), JStr("README.md")}}

ConcOutcomes(tool) ==
    {TimeoutOutcome(""), HttpResponse(404, Fill(3), NoJson),
     HttpResponse(200, Fill(3), Json("list", <<>>, <<>>))}

(***************************************************************************)
(* The state machine: each handler takes one request from its arrival to   *)
(* its response; the only suspension point is the upstream call.           *)
(***************************************************************************)
Init ==
    /\ pc = [h \in Handlers |-> "idle"]
    /\ req = [h \in Handlers |-> NoBody]
    /\ call = [h \in Handlers |-> NoCall]
    /\ outcome = [h \in Handlers |-> NoOutcome]
    /\ resp = [h \in Handlers |-> NoResp]
    /\ GITHUB_TOKEN \in {"", "ghp_token"}

\* A variant that keeps the locals in one module-level slot, which is the
\* frame of whichever awaiting handler wrote it.
LocalsShared(h) == call[CHOOSE k \in Handlers : pc[k] = "awaiting"]

\* The locals handle_call_tool keeps across its await.
LocalsOf(h) == call[h]

\* POST /sse arrives and request.json() is awaited.
Receive(h, R) ==
    /\ pc[h] = "idle"
    /\ \E r \in R :
         /\ req' = [req EXCEPT ![h] = r]
         /\ pc' = [pc EXCEPT ![h] = "parsing"]
    /\ UNCHANGED <<call, outcome, resp, GITHUB_TOKEN>>

\* The handler runs to its return, or to the await of client.get.
Dispatch(h) ==
    /\ pc[h] = "parsing"
    /\ LET d == handle_mcp_request_start(req[h], GITHUB_TOKEN)
       IN  /\ pc' = [pc EXCEPT ![h] = IF d.awaits THEN "awaiting" ELSE "done"]
           /\ call' = [call EXCEPT ![h] = d.frame]
           /\ resp' = [resp EXCEPT ![h] = d.response]
    /\ UNCHANGED <<req, outcome, GITHUB_TOKEN>>

\* client.get returns or raises, and the handler runs to its return.
UpstreamReply(h, O(_)) ==
    /\ pc[h] = "awaiting"
    /\ \E o \in O(call[h].tool) :
         /\ outcome' = [outcome EXCEPT ![h] = o]
         /\ resp' = [resp EXCEPT ![h] = handle_mcp_request_finish(req[h], LocalsOf(h), o)]
    /\ pc' = [pc EXCEPT ![h] = "done"]
    /\ UNCHANGED <<req, call, GITHUB_TOKEN>>

\* The response is sent; the handler's frame is gone.
Respond(h) ==
    /\ pc[h] = "done"
    /\ pc' = [pc EXCEPT ![h] = "idle"]
    /\ req' = [req EXCEPT ![h] = NoBody]
    /\ call' = [call EXCEPT ![h] = NoCall]
    /\ outcome' = [outcome EXCEPT ![h] = NoOutcome]
    /\ resp' = [resp EXCEPT ![h] = NoResp]
    /\ UNCHANGED GITHUB_TOKEN

\* One request at a time, every input.
Next ==
    \/ Receive(1, Requests)
    \/ Dispatch(1)
    \/ UpstreamReply(1, Outcomes)
    \/ Respond(1)

Spec == Init /\ [][Next]_vars

\* Concurrent handlers, a few inputs.
NextConc ==
    \E h \in Handlers :
        \/ Receive(h, ConcRequests)
        \/ Dispatch(h)
        \/ UpstreamReply(h, ConcOutcomes)
        \/ Respond(h)

SpecConc == Init /\ [][NextConc]_vars


(***************************************************************************)
(* Vocabulary of the properties.                                           *)
(***************************************************************************)
Finished(h) == pc[h] = "done"
IsObject(b) == b.t = "dict"
MethodOf(b) == DictGetNone(b.method)
IsMethod(b, m) == IsObject(b) /\ PyEqStr(MethodOf(b), m)
IsToolsCall(b) == IsMethod(b, "tools/call")
NamesRegisteredTool(b) ==
    /\ OrEmptyDict(b.params).t = "dict"
    /\ \E n \in RegisteredTools : PyEqStr(DictGetNone(b.params.name), n)
IsJsonRpc(r) == r.kind = "response"
HasResult(r) == "result" \in r.keys
HasError(r) == "error" \in r.keys
MadeNoCall(h) == call[h] = NoCall /\ outcome[h] = NoOutcome
\* Some literal piece of the text is exactly the string s.
Embeds(text, s) == \E i \in 1..Len(text) : text[i].lit = s

(***************************************************************************)
(* C1. Every tools/call naming a registered tool, with arguments that are  *)
(* an object, null or absent, and whatever the upstream outcome, is        *)
(* answered with a result whose content list is non-empty, never with a    *)
(* JSON-RPC error.                                                         *)
(***************************************************************************)
C1_RegisteredToolAlwaysYieldsContent ==
    \A h \in Handlers :
        (Finished(h) /\ IsToolsCall(req[h]) /\ NamesRegisteredTool(req[h])
           /\ req[h].params.arguments.t \in {"absent", "null", "dict"})
        => /\ IsJsonRpc(resp[h])
           /\ HasResult(resp[h])
           /\ ~HasError(resp[h])
           /\ Len(resp[h].result.content) > 0

(***************************************************************************)
(* C2. As claimed: every JSON-RPC response holds exactly one of the keys   *)
(* result and error.                                                       *)
(***************************************************************************)
C2_ExactlyOneOfResultAndError ==
    \A h \in Handlers :
        (Finished(h) /\ IsJsonRpc(resp[h]))
        => Cardinality(resp[h].keys \cap {"result", "error"}) = 1

(***************************************************************************)
(* C2, amended. Every JSON-RPC response to a request other than            *)
(* notifications/initialized holds exactly one of the keys result and      *)
(* error; the response to notifications/initialized holds neither.         *)
(***************************************************************************)
C2_OneOfResultAndErrorExceptNotification ==
    \A h \in Handlers :
        (Finished(h) /\ IsJsonRpc(resp[h]))
        => IF IsMethod(req[h], "notifications/initialized")
           THEN resp[h].keys \cap {"result", "error"} = {}
           ELSE Cardinality(resp[h].keys \cap {"result", "error"}) = 1

\* A tool call ended on the fault path, with an error and no result.
C2_Witness ==
    \E h \in Handlers :
        /\ Finished(h) /\ IsToolsCall(req[h]) /\ IsJsonRpc(resp[h])
        /\ HasError(resp[h]) /\ ~HasResult(resp[h])
        /\ resp[h].error.code = -32603

(***************************************************************************)
(* C3. As claimed: every JSON-RPC response carries the id of its request,  *)
(* and a null id only when the request body could not be parsed.           *)
(***************************************************************************)
C3_IdEchoedNullOnlyIfUnparsed ==
    \A h \in Handlers :
        (Finished(h) /\ IsJsonRpc(resp[h]))
        => /\ "id" \in resp[h].keys
           /\ (IsObject(req[h]) /\ req[h].id.t # "absent") => resp[h].id = req[h].id
           /\ resp[h].id = JNull => (~IsObject(req[h]) \/ req[h].id = JNull)

(***************************************************************************)
(* C3, amended. Every JSON-RPC response to a request other than            *)
(* notifications/initialized carries the id of its request, and null when  *)
(* the request has no id or its body is not JSON; the response to          *)
(* notifications/initialized carries no id.                                *)
(***************************************************************************)
C3_IdEchoedExceptNotification ==
    \A h \in Handlers :
        (Finished(h) /\ IsJsonRpc(resp[h]))
        => IF IsMethod(req[h], "notifications/initialized")
           THEN "id" \notin resp[h].keys
           ELSE /\ "id" \in resp[h].keys
                /\ resp[h].id = (IF IsObject(req[h]) /\ req[h].id.t # "absent"
                                 THEN req[h].id ELSE JNull)

\* A tool call answered after its upstream call, with the request's id.
C3_Witness ==
    \E h \in Handlers :
        /\ Finished(h) /\ IsToolsCall(req[h]) /\ outcome[h] # NoOutcome
        /\ req[h].id = JStr("req-1") /\ resp[h].id = JStr("req-1")

(***************************************************************************)
(* C4. A JSON object whose method is none of the five known ones (or is    *)
(* missing) is answered with status 200 and a JSON-RPC error of code       *)
(* -32601 whose message holds the method's name, with the request's id,    *)
(* and without an upstream call.                                           *)
(***************************************************************************)
C4_UnknownMethodIsMethodNotFound ==
    \A h \in Handlers :
        (Finished(h) /\ IsObject(req[h])
           /\ ~\E m \in KnownMethods : PyEqStr(MethodOf(req[h]), m))
        => /\ IsJsonRpc(resp[h])
           /\ resp[h].status = 200
           /\ HasError(resp[h]) /\ ~HasResult(resp[h])
           /\ resp[h].error.code = -32601
           /\ Embeds(resp[h].error.message, PyStr(MethodOf(req[h])))
           /\ resp[h].id = DictGetNone(req[h].id)
           /\ MadeNoCall(h)

\* The unknown method resources/list was answered, its name in the message.
C4_Witness ==
    \E h \in Handlers :
        /\ Finished(h) /\ IsMethod(req[h], "resources/list")
        /\ resp[h].error.code = -32601
        /\ Embeds(resp[h].error.message, "resources/list")

(***************************************************************************)
(* C5. A tools/call that names none of the three registered tools (or no   *)
(* tool) is answered with a JSON-RPC error of code -32601 or -32603 with   *)
(* a message, never with a result, and makes no upstream call.             *)
(***************************************************************************)
C5_UnknownToolIsProtocolError ==
    \A h \in Handlers :
        (Finished(h) /\ IsToolsCall(req[h]) /\ ~NamesRegisteredTool(req[h]))
        => /\ IsJsonRpc(resp[h])
           /\ HasError(resp[h]) /\ ~HasResult(resp[h])
           /\ resp[h].error.code \in {-32601, -32603}
           /\ resp[h].error.message # <<>>
           /\ resp[h].result = NoResult
           /\ MadeNoCall(h)

\* The unregistered tool delete_repository was refused, with well-formed arguments.
C5_Witness ==
    \E h \in Handlers :
        /\ Finished(h) /\ IsToolsCall(req[h])
        /\ PyEqStr(req[h].params.name, "delete_repository")
        /\ req[h].params.arguments.t = "dict"
        /\ HasError(resp[h])
        /\ Embeds(resp[h].error.message, "Unknown tool: delete_repository")

(***************************************************************************)
(* C6. A body that is not JSON, or is JSON but not an object, is answered  *)
(* by the handler itself with status 200 and a JSON-RPC error of code      *)
(* -32603 with a null id; no fault leaves the handler.                     *)
(***************************************************************************)
C6_EnvelopeFaultsAnsweredByHandler ==
    \A h \in Handlers :
        Finished(h)
        => /\ resp[h].kind # "raised"
           /\ ~IsObject(req[h])
              => /\ IsJsonRpc(resp[h])
                 /\ resp[h].status = 200
                 /\ HasError(resp[h]) /\ ~HasResult(resp[h])
                 /\ resp[h].error.code = -32603
                 /\ resp[h].id = JNull


(***************************************************************************)
(* Vocabulary of the get_file_contents properties.                         *)
(***************************************************************************)
IsFileCall(h) == Finished(h) /\ call[h].tool = "get_file_contents"
ArgsOf(h) == req[h].params.arguments
Items(h) == outcome[h].json.items
\* The sole text of the result; <<>> when the result is not one text item.
SoleText(h) ==
    LET c == resp[h].result.content
    IN  IF IsJsonRpc(resp[h]) /\ HasResult(resp[h]) /\ Len(c) = 1 /\ c[1].type = "text"
        THEN c[1].text ELSE <<>>
FirstLit(text) == IF text = <<>> THEN "no text" ELSE text[1].lit
Min(a, b) == IF a < b THEN a ELSE b
WellFormed(items) ==
    \A i \in 1..Len(items) :
        items[i].isDict /\ items[i].name.t # "absent" /\ items[i].type.t # "absent"
\* The characters of a text that holds literal pieces only.
RECURSIVE Flat(_)
Flat(text) == IF text = <<>> THEN "" ELSE Head(text).lit \o Flat(Tail(text))
\* "path or root" as the request states it.
PathLabel(h) == IF ArgsOf(h).path \in RootPaths THEN "root" ELSE PyStr(ArgsOf(h).path)
\* The listing the claim describes: a header, then one line per entry, in order.
ExpectedListing(label, items) ==
    LET line(e) == "- " \o PyStr(e.name) \o " (" \o PyStr(e.type) \o ")"
        lines[i \in 0..Len(items)] ==
            IF i = 0 THEN ""
            ELSE lines[i - 1] \o (IF i = 1 THEN "" ELSE "\n") \o line(items[i])
    IN  "Directory contents of " \o label \o ":\n" \o lines[Len(items)]
RequestsRoot(h) ==
    call[h].url = <<"https://api.github.com", "/repos/", PyStr(DictGetNone(ArgsOf(h).owner)),
                    "/", PyStr(DictGetNone(ArgsOf(h).repo)), "/contents/", "">>

(***************************************************************************)
(* C7. As claimed: get_file_contents with path "", "/" or absent requests  *)
(* /repos/{owner}/{repo}/contents/, and for every upstream 2xx response    *)
(* whose body is a sequence of entries returns one text item: the header   *)
(* `Directory contents of root:` and one line `- {name} ({type})` per      *)
(* entry, in the upstream order.                                           *)
(***************************************************************************)
C7_RootListingForAny2xx ==
    \A h \in Handlers :
        (IsFileCall(h) /\ ArgsOf(h).path \in {Absent, JStr(""), JStr("/")})
        => /\ RequestsRoot(h)
           /\ (/\ outcome[h].kind = "response"
               /\ outcome[h].status \in 200..299
               /\ outcome[h].json.shape = "list"
               /\ WellFormed(Items(h)))
              => /\ SoleText(h) # <<>>
                 /\ DataLen(SoleText(h)) = 0
                 /\ Flat(SoleText(h)) = ExpectedListing("root", Items(h))

(***************************************************************************)
(* C7, amended. The same for every upstream response of status 200 (any    *)
(* other 2xx status is answered as an HTTP error).                         *)
(***************************************************************************)
C7_RootListingFor200 ==
    \A h \in Handlers :
        (IsFileCall(h) /\ ArgsOf(h).path \in {Absent, JStr(""), JStr("/")})
        => /\ RequestsRoot(h)
           /\ (/\ outcome[h].kind = "response"
               /\ outcome[h].status = 200
               /\ outcome[h].json.shape = "list"
               /\ WellFormed(Items(h)))
              => /\ SoleText(h) # <<>>
                 /\ DataLen(SoleText(h)) = 0
                 /\ Flat(SoleText(h)) = ExpectedListing("root", Items(h))

\* Path "/" and the listing a.txt, src: the text is the one the spec quotes.
C7_Witness ==
    \E h \in Handlers :
        /\ IsFileCall(h) /\ ArgsOf(h).path = JStr("/")
        /\ outcome[h].status = 200 /\ outcome[h].json.shape = "list"
        /\ Len(Items(h)) = 2
        /\ Items(h)[1].name = JStr("a.txt") /\ Items(h)[2].name = JStr("src")
        /\ Flat(SoleText(h)) = "Directory contents of root:\n- a.txt (file)\n- src (dir)"

(***************************************************************************)
(* C8. As claimed: for a successful single entry that has a content field, *)
(* the `file exists but is empty` text is returned exactly when the        *)
(* declared size is 0, whatever the content; for a declared size > 0 the   *)
(* sole text is the decoded content, or a text describing the decoding     *)
(* error.                                                                  *)
(***************************************************************************)
IsFileEntry(h) ==
    /\ IsFileCall(h) /\ outcome[h].kind = "response" /\ outcome[h].status = 200
    /\ outcome[h].json.shape = "dict" /\ Items(h)[1].content.t # "absent"
IsEmptyText(text) == FirstLit(text) = "File exists but is empty: "
DecodedOrDecodeError(e, text) ==
    IF \E v \in ContentVectors : e.content.t = "str" /\ v.b64 = e.content.cps /\ v.ok
    THEN \E v \in ContentVectors : v.b64 = e.content.cps /\ text = Data(v.plain)
    ELSE FirstLit(text) = "Error decoding file content: " /\ Len(text) = 2

C8_EmptyExactlyWhenSizeZero ==
    \A h \in Handlers :
        IsFileEntry(h)
        => LET e == Items(h)[1]
           IN  /\ SoleText(h) # <<>>
               /\ IsEmptyText(SoleText(h)) <=> (e.size = JNum(0))
               /\ (e.size.t = "num" /\ e.size.n > 0) => DecodedOrDecodeError(e, SoleText(h))

(***************************************************************************)
(* C8, amended. The `file exists but is empty` text is returned exactly    *)
(* when the entry has no size field or its size compares equal to 0        *)
(* (0 or false); the rest is as claimed.                                   *)
(***************************************************************************)
C8_EmptyWhenSizeZeroOrMissing ==
    \A h \in Handlers :
        IsFileEntry(h)
        => LET e == Items(h)[1]
           IN  /\ SoleText(h) # <<>>
               /\ IsEmptyText(SoleText(h)) <=> (e.size \in {Absent, JNum(0), JFalse})
               /\ (e.size.t = "num" /\ e.size.n > 0) => DecodedOrDecodeError(e, SoleText(h))

\* Content aGVsbG8= of size 5: the sole text is hello.
C8_Witness ==
    \E h \in Handlers :
        /\ IsFileEntry(h)
        /\ Items(h)[1].size = JNum(5)
        /\ Items(h)[1].content.cps = <<97, 71, 86, 115, 98, 71, 56, 61>>
        /\ SoleText(h) = Data(<<104, 101, 108, 108, 111>>)

(***************************************************************************)
(* C9. Under any interleaving of concurrently handled requests, two        *)
(* requests with the same body whose upstream calls (if any) had the same  *)
(* outcome get the same response.                                          *)
(***************************************************************************)
C9_ResponseDependsOnOwnRequestOnly ==
    \A h, k \in Handlers :
        (Finished(h) /\ Finished(k) /\ req[h] = req[k] /\ outcome[h] = outcome[k])
        => resp[h] = resp[k]

\* Two handlers have answered the same tool call after the same outcome.
C9_Witness ==
    \E h, k \in Handlers :
        /\ h # k /\ IsFileCall(h) /\ IsFileCall(k)
        /\ req[h] = req[k] /\ outcome[h] = outcome[k]
        /\ outcome[h].status = 404
        /\ SoleText(h) # <<>> /\ SoleText(h) = SoleText(k)


(***************************************************************************)
(* C10. The shape of the text for each class of upstream outcome.          *)
(***************************************************************************)
Is2xx(o) == o.kind = "response" /\ o.status \in 200..299
HasContent(o) == o.json.shape = "dict" /\ o.json.items[1].content.t # "absent"

TextMatches(class, h) ==
    LET o == outcome[h]
        text == SoleText(h)
    IN  CASE class = "not_found" ->
                /\ FirstLit(text) = "File not found: "
                /\ DataLen(text) = 0
                /\ Flat(text) = "File not found: " \o PathLabel(h) \o " in "
                                \o PyStr(DictGetNone(ArgsOf(h).owner)) \o "/"
                                \o PyStr(DictGetNone(ArgsOf(h).repo))
                                \o ". The file may not exist or the repository may be private."
          [] class = "http_error" ->
                /\ FirstLit(text) = "Error accessing file: HTTP "
                /\ Embeds(text, ToString(o.status))
                /\ Len(text) = 4
                /\ text[4].cps = SubSeq(o.text, 1, Min(Len(o.text), 200))
                /\ DataLen(text) <= 200
          [] class = "bad_json" ->
                /\ FirstLit(text) = "Error: GitHub API returned invalid JSON. Response: "
                /\ Len(text) = 2
                /\ text[2].cps = SubSeq(o.text, 1, Min(Len(o.text), 500))
                /\ DataLen(text) <= 500
          [] class = "directory" ->
                /\ DataLen(text) = 0
                /\ Flat(text) = ExpectedListing(PathLabel(h), o.json.items)
          [] class = "file" ->
                \/ IsEmptyText(text)
                \/ DecodedOrDecodeError(o.json.items[1], text)
          [] class = "metadata" -> FirstLit(text) \in {"{", "{}", "\""}
          [] class = "timeout" -> FirstLit(text) = "Timeout accessing GitHub API for "
          [] OTHER -> FirstLit(text) = "Error: " /\ Len(text) = 2

(***************************************************************************)
(* C10. As claimed: every upstream outcome falls in the first matching of  *)
(* (1) 404, (2) another non-2xx status, (3) 2xx with an unparseable body,  *)
(* (4) 2xx with a sequence, (5) 2xx with an entry that has content,        *)
(* (6) 2xx with an entry without content; the cases are exhaustive and     *)
(* each yields exactly one text item of its kind.                          *)
(***************************************************************************)
ClaimedClass(o) ==
    CASE o.kind = "response" /\ o.status = 404 -> "not_found"
      [] o.kind = "response" /\ ~Is2xx(o) -> "http_error"
      [] Is2xx(o) /\ o.json.shape = "invalid" -> "bad_json"
      [] Is2xx(o) /\ o.json.shape = "list" -> "directory"
      [] Is2xx(o) /\ HasContent(o) -> "file"
      [] Is2xx(o) /\ o.json.shape = "dict" -> "metadata"
      [] OTHER -> "none"

C10_SixCasesExhaustive ==
    \A h \in Handlers :
        IsFileCall(h)
        => /\ SoleText(h) # <<>>
           /\ ClaimedClass(outcome[h]) # "none"
           /\ TextMatches(ClaimedClass(outcome[h]), h)

(***************************************************************************)
(* C10, amended. Every upstream outcome falls in the first matching of:    *)
(* a timeout -> `Timeout accessing GitHub API for ...`; another fault of   *)
(* the call -> `Error: {fault}`; (1) 404; (2) any other status than 200,   *)
(* with at most 200 characters of the body; (3) 200 with an unparseable    *)
(* body, with at most 500 characters of it; (4) 200 with a sequence whose  *)
(* entries all are objects with name and type; (5) 200 with an object      *)
(* that has content; (6) 200 with an object without content, or a JSON     *)
(* string that does not contain "content" -> the value as JSON text;       *)
(* any other fault raised on a 200 response -> `Error: {fault}`.  Each     *)
(* yields exactly one text.                                                *)
(***************************************************************************)
ActualClass(o) ==
    CASE o.kind = "timeout" -> "timeout"
      [] o.kind = "error" -> "fault"
      [] o.status = 404 -> "not_found"
      [] o.status # 200 -> "http_error"
      [] o.json.shape = "invalid" -> "bad_json"
      [] o.json.shape = "list" /\ WellFormed(o.json.items) -> "directory"
      [] HasContent(o) -> "file"
      [] o.json.shape = "dict" -> "metadata"
      [] o.json.shape = "str" /\ ~IsSubstring(ContentWord, o.json.s) -> "metadata"
      [] OTHER -> "fault"

C10_CasesWithFaultsExhaustive ==
    \A h \in Handlers :
        IsFileCall(h)
        => /\ SoleText(h) # <<>>
           /\ TextMatches(ActualClass(outcome[h]), h)

\* Status 500 with a body of 201 characters: the text quotes 200 of them.
C10_Witness ==
    \E h \in Handlers :
        /\ IsFileCall(h)
        /\ outcome[h].status = 500 /\ Len(outcome[h].text) = 201
        /\ FirstLit(SoleText(h)) = "Error accessing file: HTTP "
        /\ DataLen(SoleText(h)) = 200

=============================================================================
